---- MODULE Spec2Model ----
(***************************************************************************)
(* Model of the aix_cpu_watch event source                                 *)
(* (plugins/event_source/aix_cpu_watch.py): the vmstat sampler, the        *)
(* threshold decision, the per-host SSH session and the polling loop.      *)
(*                                                                         *)
(* Text is modelled structurally: a command output is a sequence of lines, *)
(* a line is the sequence of its whitespace-delimited tokens (a blank line *)
(* is the empty sequence) and a token is a sequence of characters.         *)
(* Numbers are fixed-point integers with FracDigits decimal places; the    *)
(* tokens used are dyadic rationals, for which Python's float arithmetic   *)
(* is exact, so the fixed-point sums are the sums the code computes.       *)
(***************************************************************************)
EXTENDS Integers, Sequences, FiniteSets, TLC

\* ------------------------------------------------------------------ bounds
\* decimal places kept by the fixed-point numbers
FracDigits == 3
\* longest line (in tokens) given to the sampler
MaxToks == 5
\* largest usage / threshold value given to the threshold decision
MaxUsage == 100
\* longest configured host list
MaxHosts == 2
\* ticks of the polling loop that are explored
MaxTicks == 2
\* calls made on a Session used alone
MaxCalls == 5
\* largest capacity of the output queue that is explored
MaxQueue == 4

VARIABLES
  hosts,            \* args["hosts"], as the sequence of its "host" values
  emit_only_above,  \* args["emit_only_above"]
  threshold,        \* args["threshold"], fixed-point
  running,          \* AIXCPUWatch.running
  clients,          \* AIXCPUWatch.clients: host -> _SSHClient._client (0 is None)
  sshobj,           \* the paramiko.SSHClient objects made so far: their transport (0: none)
  conns,            \* the transports opened so far: [host, open]
  sched,            \* where AIXCPUWatch.run is
  fin,              \* sessions the finally block has closed so far
  tick,             \* iterations of the while loop started so far
  task,             \* the poll_one coroutines of the current tick
  queue,            \* the output queue: the events put and not yet taken
  closes,           \* close() calls made so far on the _SSHClient built for each entry
  interval,         \* args["interval"]
  now,              \* the event loop's clock
  start,            \* start, of the current iteration of the while loop
  delay,            \* the argument of the last asyncio.sleep
  timing,           \* what the environment may do: the times a gather may take
                    \* (elapsed) and how late a sleep may return (late)
  pool,             \* worker threads of the executor asyncio.to_thread uses
  maxsize,          \* the capacity of the output queue the caller built
  p_pc, p_in, p_res \* the pure functions applied alone: position, input, result

vars == <<hosts, emit_only_above, threshold, running, clients, sshobj, conns,
          sched, fin, tick, task, queue, closes, interval, now, start, delay,
          timing, pool, maxsize, p_pc, p_in, p_res>>

timevars == <<interval, now, start, delay, timing>>

mainvars == <<hosts, emit_only_above, threshold, running, clients, sshobj,
              conns, sched, fin, tick, task, queue, closes, timevars, pool, maxsize>>

purevars == <<p_pc, p_in, p_res>>

RECURSIVE Pow10(_)
Pow10(n) == IF n = 0 THEN 1 ELSE 10 * Pow10(n - 1)

Scale == Pow10(FracDigits)

\* ------------------------------------------------------- characters, tokens
AsciiDigits == {"0", "1", "2", "3", "4", "5", "6", "7", "8", "9"}

\* "sup2" stands for the one character U+00B2 (superscript two): str.isdigit()
\* is true of it, float() rejects it.
OtherDigits == {"sup2"}

DigitVal(c) ==
  CASE c = "0" -> 0 [] c = "1" -> 1 [] c = "2" -> 2 [] c = "3" -> 3
    [] c = "4" -> 4 [] c = "5" -> 5 [] c = "6" -> 6 [] c = "7" -> 7
    [] c = "8" -> 8 [] c = "9" -> 9

\* index of the first "." of token t, 0 when it has none
RECURSIVE FirstDot(_, _)
FirstDot(t, i) ==
  IF i > Len(t) THEN 0
  ELSE IF t[i] = "." THEN i
  ELSE FirstDot(t, i + 1)

\* t.replace('.', '', 1)
ReplaceFirstDot(t) ==
  LET d == FirstDot(t, 1)
  IN  IF d = 0 THEN t
      ELSE SubSeq(t, 1, d - 1) \o SubSeq(t, d + 1, Len(t))

\* str.isdigit(): non-empty and every character a digit character
IsDigit(s) ==
  /\ Len(s) > 0
  /\ \A i \in 1..Len(s) : s[i] \in AsciiDigits \cup OtherDigits

\* the filter of the list comprehension: t.replace('.', '', 1).isdigit()
IsNumericTok(t) == IsDigit(ReplaceFirstDot(t))

\* value of a string of ASCII digits
RECURSIVE DigitsVal(_)
DigitsVal(s) ==
  IF Len(s) = 0 THEN 0
  ELSE 10 * DigitsVal(SubSeq(s, 1, Len(s) - 1)) + DigitVal(s[Len(s)])

\* float(t) can be computed: digits and at most one ".", at least one digit
FloatParses(t) ==
  LET r == ReplaceFirstDot(t)
  IN  /\ Len(r) > 0
      /\ \A i \in 1..Len(r) : r[i] \in AsciiDigits

\* float(t), in units of 1/Scale, for a token FloatParses accepts
FloatVal(t) ==
  LET d  == FirstDot(t, 1)
      ip == IF d = 0 THEN t ELSE SubSeq(t, 1, d - 1)
      fp == IF d = 0 THEN << >> ELSE SubSeq(t, d + 1, Len(t))
      n  == IF Len(fp) > FracDigits THEN FracDigits ELSE Len(fp)
  IN  DigitsVal(ip) * Scale
        + DigitsVal(SubSeq(fp, 1, n)) * Pow10(FracDigits - n)

\* [t for t in line.strip().split() if ...]
RECURSIVE NumericToks(_)
NumericToks(line) ==
  IF Len(line) = 0 THEN << >>
  ELSE IF IsNumericTok(line[1])
       THEN <<line[1]>> \o NumericToks(Tail(line))
       ELSE NumericToks(Tail(line))

Raise(kind, msg) == [ok |-> FALSE, exc |-> kind, msg |-> msg]

\* mutant of ComputeCpuUsageFromVmstat: wa left out of the usage
ComputeCpuUsageNoWa(line) ==
  LET toks == NumericToks(line)
      n    == Len(toks)
  IN  IF n < 4 THEN Raise("ValueError", "Unexpected vmstat output")
      ELSE LET last4 == SubSeq(toks, n - 3, n)
           IN  IF \E i \in 1..4 : ~FloatParses(last4[i])
               THEN Raise("ValueError", "could not convert string to float")
               ELSE [ok |-> TRUE,
                     cpu |-> [us |-> FloatVal(last4[1]), sy |-> FloatVal(last4[2]),
                              id |-> FloatVal(last4[3]), wa |-> FloatVal(last4[4]),
                              usage |-> FloatVal(last4[1]) + FloatVal(last4[2])]]

\* _compute_cpu_usage_from_vmstat(line)
ComputeCpuUsageFromVmstat(line) ==
  LET toks == NumericToks(line)
      n    == Len(toks)
  IN  IF n < 4 THEN Raise("ValueError", "Unexpected vmstat output")
      ELSE LET last4 == SubSeq(toks, n - 3, n)
           IN  IF \E i \in 1..4 : ~FloatParses(last4[i])
               THEN Raise("ValueError", "could not convert string to float")
               ELSE LET us  == FloatVal(last4[1])
                        sy  == FloatVal(last4[2])
                        idl == FloatVal(last4[3])
                        wa  == FloatVal(last4[4])
                    IN  [ok |-> TRUE,
                         cpu |-> [us |-> us, sy |-> sy, id |-> idl, wa |-> wa,
                                  usage |-> us + sy + wa]]

\* [line for line in out.splitlines() if line.strip()]
RECURSIVE NonBlankLines(_)
NonBlankLines(out) ==
  IF Len(out) = 0 THEN << >>
  ELSE IF Len(out[1]) > 0
       THEN <<out[1]>> \o NonBlankLines(Tail(out))
       ELSE NonBlankLines(Tail(out))

\* poll_one, from the command's output to the parsed cpu dict
SampleOf(out) ==
  LET nb == NonBlankLines(out)
  IN  IF Len(nb) = 0 THEN Raise("IndexError", "list index out of range")
      ELSE ComputeCpuUsageFromVmstat(nb[Len(nb)])

\* mutant of Crossed: the boundary left out
CrossedStrict(usage, thr) == usage > thr

\* crossed = cpu["usage"] >= threshold
Crossed(usage, thr) == usage >= thr

\* mutant of ShouldEmit: the policy flag ignored
ShouldEmitAlways(only_above, crossed) == TRUE

\* if (not emit_only_above) or crossed
ShouldEmit(only_above, crossed) == (~only_above) \/ crossed

\* ------------------------------------------------------------ configuration
HostNames == {"h1", "h2"}

\* threshold = float(args.get("threshold", 80.0))
DefaultThreshold == 80

\* interval = int(args.get("interval", 10))
DefaultInterval == 10

\* asyncio.to_thread runs cli.run in the event loop's default executor, a
\* thread pool of min(32, cpu_count + 4) workers: 32 on a large machine
DefaultWorkers == 32

RECURSIVE SeqsUpTo(_, _)
SeqsUpTo(S, n) ==
  IF n = 0 THEN {<< >>}
  ELSE LET shorter == SeqsUpTo(S, n - 1)
       IN  shorter \cup {Append(s, x) : s \in shorter, x \in S}

\* the host lists explored: every list of at most MaxHosts entries, the same
\* host possibly listed more than once, up to the renaming of hosts and the
\* order of the entries
HostLists ==
  {s \in SeqsUpTo(HostNames, MaxHosts) :
     /\ \A i \in 1..Len(s) - 1 : s[i] = "h1" \/ s[i + 1] = "h2"
     /\ Cardinality({i \in 1..Len(s) : s[i] = "h1"})
          >= Cardinality({i \in 1..Len(s) : s[i] = "h2"})}

\* distinct keys of self.clients in insertion order
RECURSIVE KeysInOrder(_)
KeysInOrder(hs) ==
  IF Len(hs) = 0 THEN << >>
  ELSE LET front == KeysInOrder(SubSeq(hs, 1, Len(hs) - 1))
           h     == hs[Len(hs)]
       IN  IF \E i \in 1..Len(front) : front[i] = h THEN front
           ELSE Append(front, h)

\* the command outputs the remote side may return
OutLow   == << << <<"1", "2", ".", "0">>, <<"3", ".", "0">>,
                  <<"8", "0", ".", "0">>, <<"5", ".", "0">> >> >>
OutEq    == << << <<"a">>, <<"6", "0">>, <<"1", "5">>, <<"2", "0">>, <<"5">> >>,
               << >> >>
OutShort == << << <<"1", "2">>, <<"3">>, <<"8", "0">> >> >>
OutEmpty == << >>
OutBlank == << << >> >>
Outputs  == {OutLow, OutEq, OutShort, OutEmpty, OutBlank}

\* ------------------------------------------------------------------- events
\* round(x, 2): to the nearest multiple of 1/100, ties to even
Round2(v) ==
  LET unit == Pow10(FracDigits - 2)
      q    == v \div unit
      r    == v % unit
  IN  IF 2 * r < unit THEN q * unit
      ELSE IF 2 * r > unit THEN (q + 1) * unit
      ELSE IF q % 2 = 0 THEN q * unit ELSE (q + 1) * unit

\* the success event of poll_one
SuccessEvent(host, cpu, crossed) ==
  [timestamp |-> tick,
   host      |-> host,
   cpu       |-> [percent |-> Round2(cpu.usage), us |-> cpu.us, sy |-> cpu.sy,
                  id |-> cpu.id, wa |-> cpu.wa],
   threshold |-> threshold,
   crossed   |-> crossed,
   source    |-> "aix_cpu_watch"]

\* mutant of ErrEvent: the threshold is reported on errors too
ErrEventWithThreshold(host, msg) ==
  [timestamp |-> tick,
   host      |-> host,
   error     |-> msg,
   threshold |-> threshold,
   source    |-> "aix_cpu_watch",
   severity  |-> "error"]

\* the error event of poll_one
ErrEvent(host, msg) ==
  [timestamp |-> tick,
   host      |-> host,
   error     |-> msg,
   source    |-> "aix_cpu_watch",
   severity  |-> "error"]

\* ------------------------------------------------------------------ helpers
\* a poll_one coroutine that has not run in this tick yet
NoUsage == 0 - 1

\* no result of cli.run is held
NoRes == Raise("none", "")

\* pc: where the coroutine and its worker thread are; obj, chan: the paramiko
\* client and the transport the thread is inside a call of; res: what cli.run
\* returned or raised, until poll_one has dealt with it; orphan: the
\* coroutine was cancelled and the thread runs on; failed, usage, emitted:
\* what the poll of this tick came to (history of the current tick)
FreshTask ==
  [pc |-> "run", obj |-> 0, chan |-> 0, res |-> NoRes, orphan |-> FALSE,
   failed |-> FALSE, usage |-> NoUsage, emitted |-> << >>]

\* the variables no step of a poll changes
pollframe == <<hosts, emit_only_above, threshold, running, sched, fin, tick,
               purevars, closes, timevars, pool, maxsize>>

Tasks == 1..Len(hosts)

AllDone == \A i \in Tasks : task[i].pc = "done"

\* transports of host h that are open
OpenConns(h) == {c \in 1..Len(conns) : conns[c].host = h /\ conns[c].open}

\* -------------------------------------------------------- AIXCPUWatch.run
\* mutant of RunStart: the host list is not checked
RunStartNoCheck ==
  /\ sched = "idle"
  /\ sched' = "loop"
  /\ clients' = [h \in {hosts[i] : i \in 1..Len(hosts)} |-> 0]
  /\ closes' = [i \in 1..Len(hosts) |-> 0]
  /\ UNCHANGED <<hosts, emit_only_above, threshold, running, sshobj, conns,
                 fin, tick, task, queue, purevars, timevars, pool, maxsize>>

\* mutant of RunStart: every Session is connected as it is constructed
RunStartEager ==
  /\ sched = "idle"
  /\ IF Len(hosts) = 0
     THEN /\ sched' = "raised"
          /\ UNCHANGED <<clients, closes, sshobj, conns>>
     ELSE LET ks == KeysInOrder(hosts)
          IN  /\ sched' = "loop"
              /\ clients' = [h \in {hosts[i] : i \in 1..Len(hosts)} |->
                               CHOOSE k \in 1..Len(ks) : ks[k] = h]
              /\ sshobj' = [k \in 1..Len(ks) |-> [transport |-> k]]
              /\ conns' = [k \in 1..Len(ks) |-> [host |-> ks[k], open |-> TRUE]]
              /\ closes' = [i \in 1..Len(hosts) |-> 0]
  /\ UNCHANGED <<hosts, emit_only_above, threshold, running,
                 fin, tick, task, queue, purevars, timevars, pool, maxsize>>

\* hosts = args.get("hosts", []); if not hosts: raise; "Prepare SSH clients"
RunStart ==
  /\ sched = "idle"
  /\ IF Len(hosts) = 0
     THEN /\ sched' = "raised"
          /\ UNCHANGED <<clients, closes>>
     ELSE /\ sched' = "loop"
          /\ clients' = [h \in {hosts[i] : i \in 1..Len(hosts)} |-> 0]
          /\ closes' = [i \in 1..Len(hosts) |-> 0]
  /\ UNCHANGED <<hosts, emit_only_above, threshold, running, sshobj, conns,
                 fin, tick, task, queue, purevars, timevars, pool, maxsize>>

\* mutant of LoopTest: the running flag is not looked at
LoopTestDeaf ==
  /\ sched = "loop"
  /\ tick < MaxTicks
  /\ tick' = tick + 1
  /\ start' = now
  /\ task' = [i \in Tasks |-> FreshTask]
  /\ sched' = "gather"
  /\ UNCHANGED <<hosts, emit_only_above, threshold, running, clients, sshobj,
                 conns, fin, queue, purevars, closes, interval, now, delay,
                 timing, pool, maxsize>>

\* while self.running: start = ...; gather(*(poll_one(h) for h in hosts))
LoopTest ==
  /\ sched = "loop"
  /\ IF running
     THEN /\ tick < MaxTicks
          /\ tick' = tick + 1
          /\ start' = now
          /\ task' = [i \in Tasks |-> FreshTask]
          /\ sched' = "gather"
     ELSE /\ sched' = "finally"
          /\ UNCHANGED <<tick, task, start>>
  /\ UNCHANGED <<hosts, emit_only_above, threshold, running, clients, sshobj,
                 conns, fin, queue, purevars, closes, interval, now, delay,
                 timing, pool, maxsize>>

\* mutant of GatherDone: the gather returns with the first poll_one that does
GatherAnyDone == \E i \in Tasks : task[i].pc = "done"

\* the gather is over when every poll_one has returned
GatherDone == AllDone

\* mutant of SleepFor: the whole interval, whatever the tick took
SleepForInterval(intv, elapsed) == IF intv > 0 THEN intv ELSE 0

\* max(0, interval - elapsed)
SleepFor(intv, elapsed) == IF intv - elapsed > 0 THEN intv - elapsed ELSE 0

\* await asyncio.gather(...) returns; elapsed = loop.time() - start, the clock
\* being read at some time not before start; await asyncio.sleep(...).
\* An exception that left a poll_one leaves the gather and the loop at once.
Join ==
  /\ sched = "gather"
  /\ IF \E i \in Tasks : task[i].pc = "raised"
     THEN /\ sched' = "finally"
          /\ UNCHANGED <<now, delay>>
     ELSE /\ GatherDone
          /\ \E d \in timing.elapsed :
               /\ now' = start + d
               /\ delay' = SleepFor(interval, now' - start)
          /\ sched' = "sleep"
  /\ UNCHANGED <<hosts, emit_only_above, threshold, running, clients, sshobj,
                 conns, fin, tick, task, queue, purevars, closes, interval,
                 start, timing, pool, maxsize>>

\* the sleep returns, not before the delay has passed, and the while condition
\* is evaluated again
Wake ==
  /\ sched = "sleep"
  /\ \E l \in timing.late : now' = now + delay + l
  /\ sched' = "loop"
  /\ UNCHANGED <<hosts, emit_only_above, threshold, running, clients, sshobj,
                 conns, fin, tick, task, queue, purevars, closes, interval,
                 start, delay, timing, pool, maxsize>>

\* self.clients[key] = _SSHClient(...): the object kept under key h is the one
\* built for the last entry of the host list that names h
SessionOf(h) ==
  CHOOSE i \in 1..Len(hosts) :
    hosts[i] = h /\ \A j \in 1..Len(hosts) : hosts[j] = h => j <= i

\* mutant of CloseSession: the handle is not dropped
CloseSessionKeepsHandle(h) ==
  LET c == clients[h]
      t == IF c = 0 THEN 0 ELSE sshobj[c].transport
  IN  /\ conns' = IF t = 0 THEN conns ELSE [conns EXCEPT ![t].open = FALSE]
      /\ UNCHANGED clients
      /\ closes' = [closes EXCEPT ![SessionOf(h)] = @ + 1]

\* _SSHClient.close() of the session under key h, as one call with no other
\* thread beside it: the handle is read, the client it names is closed and the
\* handle is dropped
CloseSession(h) ==
  LET c == clients[h]
      t == IF c = 0 THEN 0 ELSE sshobj[c].transport
  IN  /\ conns' = IF t = 0 THEN conns ELSE [conns EXCEPT ![t].open = FALSE]
      /\ clients' = [clients EXCEPT ![h] = 0]
      /\ closes' = [closes EXCEPT ![SessionOf(h)] = @ + 1]

\* the positions of run() inside its finally block: at the for loop, inside a
\* close() before self._client.close(), inside a close() before its finally
InFinally == sched \in {"finally", "close", "clear"}

\* the key of the Session the finally block is closing
Closing == KeysInOrder(hosts)[fin + 1]

\* finally: for cli in self.clients.values(): the loop ends, or takes the next
\* Session and calls cli.close(), which tests `if self._client`
Finally ==
  /\ sched = "finally"
  /\ IF fin < Len(KeysInOrder(hosts))
     THEN sched' = IF clients[Closing] = 0 THEN "clear" ELSE "close"
     ELSE sched' = "stopped"
  /\ UNCHANGED <<hosts, emit_only_above, threshold, running, clients, sshobj,
                 conns, fin, tick, task, queue, purevars, closes, timevars,
                 pool, maxsize>>

\* close(): self._client.close(), paramiko's close of the client the handle
\* names when the call is made; its transport, when it has one, is closed.
\* (The handle is not None here: the test has passed and only close() drops
\* it.)
CloseCall ==
  /\ sched = "close"
  /\ LET c == clients[Closing]
         t == IF c = 0 THEN 0 ELSE sshobj[c].transport
     IN  conns' = IF t = 0 THEN conns ELSE [conns EXCEPT ![t].open = FALSE]
  /\ sched' = "clear"
  /\ UNCHANGED <<hosts, emit_only_above, threshold, running, clients, sshobj,
                 fin, tick, task, queue, purevars, closes, timevars, pool, maxsize>>

\* close(): finally: self._client = None; the call returns to the for loop
CloseClear ==
  /\ sched = "clear"
  /\ clients' = [clients EXCEPT ![Closing] = 0]
  /\ closes' = [closes EXCEPT ![SessionOf(Closing)] = @ + 1]
  /\ fin' = fin + 1
  /\ sched' = "finally"
  /\ UNCHANGED <<hosts, emit_only_above, threshold, running, sshobj, conns,
                 tick, task, queue, purevars, timevars, pool, maxsize>>

\* the running flag is cleared from outside
Stop ==
  /\ running
  /\ sched \in {"loop", "gather", "sleep"}
  /\ running' = FALSE
  /\ UNCHANGED <<hosts, emit_only_above, threshold, clients, sshobj, conns,
                 sched, fin, tick, task, queue, purevars,
                 closes, timevars, pool, maxsize>>

\* -------------------------------------------------- poll_one on the event loop
\* SampleOf on each output the remote side may return
SampleTable == [o \in Outputs |-> SampleOf(o)]

\* mutant of TryBody: the sample of one fixed output, whatever run returned
TryBodyStale(res) == IF res.ok THEN SampleTable[OutLow] ELSE res

\* the try block of poll_one up to the parsed sample: the cpu dict, or the
\* exception raised by cli.run, by the line selection or by the parser
TryBody(res) == IF res.ok THEN SampleTable[res.out] ELSE res

\* mutant of EventsFor: the except clause puts nothing
EventsForSilent(host, r) ==
  IF ~r.ok THEN << >>
  ELSE LET crossed == Crossed(r.cpu.usage, threshold)
       IN  IF ShouldEmit(emit_only_above, crossed)
           THEN <<SuccessEvent(host, r.cpu, crossed)>>
           ELSE << >>

\* mutant of EventsFor: the error event is subject to emit_only_above too
EventsForPolicyOnErrors(host, r) ==
  IF ~r.ok THEN (IF emit_only_above THEN << >> ELSE <<ErrEvent(host, r.msg)>>)
  ELSE LET crossed == Crossed(r.cpu.usage, threshold)
       IN  IF ShouldEmit(emit_only_above, crossed)
           THEN <<SuccessEvent(host, r.cpu, crossed)>>
           ELSE << >>

\* what poll_one puts on the queue for the outcome r of its try block: the
\* success event, the error event of the except clause, or nothing (<< >>)
EventsFor(host, r) ==
  IF ~r.ok THEN <<ErrEvent(host, r.msg)>>
  ELSE LET crossed == Crossed(r.cpu.usage, threshold)
       IN  IF ShouldEmit(emit_only_above, crossed)
           THEN <<SuccessEvent(host, r.cpu, crossed)>>
           ELSE << >>

\* the usage computed in the try block, NoUsage for a failed poll
UsageOf(r) == IF r.ok THEN r.cpu.usage ELSE NoUsage

\* success or error, by the fields the event carries
Kind(e) == IF "cpu" \in DOMAIN e THEN "success" ELSE "error"

\* the classes derived from Exception among those that can be raised here
ExceptionClasses ==
  {"ValueError", "IndexError", "RuntimeError", "AttributeError",
   "SSHException", "NoValidConnectionsError", "AuthenticationException"}

\* mutant of Caught: the IndexError of the line selection gets through
CaughtNoIndexError(exc) == exc \in ExceptionClasses \ {"IndexError"}

\* mutant of Caught: except ValueError
CaughtValueErrorOnly(exc) == exc = "ValueError"

\* except Exception as e
Caught(exc) == exc \in ExceptionClasses

\* The queue is the caller's: run() only puts. It holds up to maxsize events,
\* in the order of the puts, and a consumer takes the oldest at any time; a
\* put on a full queue waits.
QueueFull == Len(queue) >= maxsize

\* mutant of Put: the event is placed ahead of the events already queued
PutFirst(q, evs) == evs \o q

\* await queue.put(ev): the event becomes the newest of the queue
Put(q, evs) == q \o evs

\* poll_one on the event loop, from the end of asyncio.to_thread(cli.run,
\* ...), a return value or a raised exception alike (task[i].res), to its own
\* return: the line selection, the parsing, the decision and await
\* queue.put(ev), where the coroutine waits while the queue is full. An
\* exception the except clause does not catch leaves poll_one.
PollOneEnds(i) ==
  /\ task[i].pc = "put"
  /\ LET r == TryBody(task[i].res)
     IN  IF ~r.ok /\ ~Caught(r.exc)
         THEN /\ task' = [task EXCEPT ![i].pc = "raised", ![i].failed = TRUE,
                                      ![i].res = NoRes]
              /\ UNCHANGED queue
         ELSE LET evs == EventsFor(hosts[i], r)
              IN  /\ Len(evs) > 0 => ~QueueFull
                  /\ queue' = Put(queue, evs)
                  /\ task' = [task EXCEPT ![i].pc = "done",
                                          ![i].res = NoRes,
                                          ![i].failed = ~r.ok,
                                          ![i].usage = UsageOf(r),
                                          ![i].emitted = [j \in 1..Len(evs) |-> Kind(evs[j])]]
  /\ UNCHANGED <<clients, sshobj, conns, pollframe>>

\* ------------------------------------------- _SSHClient.run in a worker thread
\* polls whose cli.run occupies a worker thread
Working ==
  {j \in Tasks :
     task[j].pc \in {"test", "ctest", "new", "dial", "conn", "exec", "wait"}}

\* cli.run returns or raises res: the worker thread is free; the awaiting
\* poll_one gets res, unless it was cancelled, and then res is dropped
ThreadEnds(i, res) ==
  task' = [task EXCEPT ![i].pc = IF task[i].orphan THEN "dropped" ELSE "put",
                       ![i].res = IF task[i].orphan THEN NoRes ELSE res,
                       ![i].obj = 0, ![i].chan = 0]

\* asyncio.to_thread(cli.run, sample_cmd): a free worker thread of the
\* executor takes the call
ToThread(i) ==
  /\ task[i].pc = "run"
  /\ Cardinality(Working) < pool
  /\ task' = [task EXCEPT ![i].pc = "test"]
  /\ UNCHANGED <<clients, sshobj, conns, queue, pollframe>>

\* run: if not self._client: self.connect()
RunTest(i) ==
  /\ task[i].pc = "test"
  /\ task' = [task EXCEPT ![i].pc =
                IF clients[hosts[i]] = 0 THEN "ctest" ELSE "exec"]
  /\ UNCHANGED <<clients, sshobj, conns, queue, pollframe>>

\* connect: if self._client: return
ConnectTest(i) ==
  /\ task[i].pc = "ctest"
  /\ task' = [task EXCEPT ![i].pc =
                IF clients[hosts[i]] = 0 THEN "new" ELSE "exec"]
  /\ UNCHANGED <<clients, sshobj, conns, queue, pollframe>>

\* connect: self._client = paramiko.SSHClient()
ConnectNew(i) ==
  /\ task[i].pc = "new"
  /\ sshobj' = Append(sshobj, [transport |-> 0])
  /\ clients' = [clients EXCEPT ![hosts[i]] = Len(sshobj) + 1]
  /\ task' = [task EXCEPT ![i].pc = "dial"]
  /\ UNCHANGED <<conns, queue, pollframe>>

\* what paramiko's connect may raise
DialErrors == {"NoValidConnectionsError", "AuthenticationException"}

\* connect: self._client.connect(...) is called, on the object self._client
\* names at the call; None has no connect
DialCall(i) ==
  /\ task[i].pc = "dial"
  /\ IF clients[hosts[i]] = 0
     THEN ThreadEnds(i, Raise("AttributeError", "NoneType"))
     ELSE task' = [task EXCEPT ![i].pc = "conn", ![i].obj = clients[hosts[i]]]
  /\ UNCHANGED <<clients, sshobj, conns, queue, pollframe>>

\* paramiko's connect returns, with a transport on the client it was called
\* on, or raises, which ends cli.run
Dial(i) ==
  /\ task[i].pc = "conn"
  /\ \/ /\ conns' = Append(conns, [host |-> hosts[i], open |-> TRUE])
        /\ sshobj' = [sshobj EXCEPT ![task[i].obj].transport = Len(conns) + 1]
        /\ task' = [task EXCEPT ![i].pc = "exec", ![i].obj = 0]
     \/ /\ \E e \in DialErrors : ThreadEnds(i, Raise(e, e))
        /\ UNCHANGED <<sshobj, conns>>
  /\ UNCHANGED <<clients, queue, pollframe>>

\* mutant of RunResult: any text on the error stream raises
RunResultStrict(out, err) ==
  IF err THEN Raise("RuntimeError", "Command error")
  ELSE [ok |-> TRUE, out |-> out]

\* run: if err and not out: raise RuntimeError(...); return out
RunResult(out, err) ==
  IF err /\ Len(out) = 0 THEN Raise("RuntimeError", "Command error")
  ELSE [ok |-> TRUE, out |-> out]

\* what run may come to on a connected session: every output, with or
\* without text on the error stream
RunResults == {RunResult(out, err) : out \in Outputs, err \in BOOLEAN}

\* run: self._client.exec_command(cmd, ...) is called, on the object
\* self._client names at the call; it opens its channel on that client's
\* transport, which None and a client that never connected do not have
ExecCall(i) ==
  /\ task[i].pc = "exec"
  /\ LET c == clients[hosts[i]]
         t == IF c = 0 THEN 0 ELSE sshobj[c].transport
     IN  IF c = 0 \/ t = 0
         THEN ThreadEnds(i, Raise("AttributeError", "NoneType"))
         ELSE IF ~conns[t].open
         THEN ThreadEnds(i, Raise("SSHException", "SSH session not active"))
         ELSE task' = [task EXCEPT ![i].pc = "wait", ![i].obj = c, ![i].chan = t]
  /\ UNCHANGED <<clients, sshobj, conns, queue, pollframe>>

\* mutant of Exec: a command that fails drops the Session's client
ExecDiscarding(i) ==
  /\ task[i].pc = "wait"
  /\ IF ~conns[task[i].chan].open
     THEN /\ ThreadEnds(i, Raise("SSHException", "SSH session not active"))
          /\ UNCHANGED clients
     ELSE \E res \in RunResults :
            /\ ThreadEnds(i, res)
            /\ clients' = IF TryBody(res).ok THEN clients
                          ELSE [clients EXCEPT ![hosts[i]] = 0]
  /\ UNCHANGED <<sshobj, conns, queue, pollframe>>

\* run: the remote command ends, both streams are read and run returns the
\* output or raises; on a transport closed meanwhile the command fails
Exec(i) ==
  /\ task[i].pc = "wait"
  /\ IF ~conns[task[i].chan].open
     THEN ThreadEnds(i, Raise("SSHException", "SSH session not active"))
     ELSE \E res \in RunResults : ThreadEnds(i, res)
  /\ UNCHANGED <<clients, sshobj, conns, queue, pollframe>>

\* the consumer of the queue takes the oldest event
Consume ==
  /\ Len(queue) > 0
  /\ queue' = Tail(queue)
  /\ UNCHANGED <<hosts, emit_only_above, threshold, running, clients, sshobj,
                 conns, sched, fin, tick, task, purevars,
                 closes, timevars, pool, maxsize>>

\* ------------------------------------------------------------ specification
Init ==
  /\ hosts \in HostLists
  /\ emit_only_above \in BOOLEAN
  /\ threshold = DefaultThreshold * Scale
  /\ running = TRUE
  /\ clients = << >>
  /\ sshobj = << >>
  /\ conns = << >>
  /\ sched = "idle"
  /\ fin = 0
  /\ tick = 0
  /\ task = [i \in 1..Len(hosts) |-> [FreshTask EXCEPT !.pc = "idle"]]
  /\ queue = << >>
  /\ closes = << >>
  /\ interval = DefaultInterval
  /\ now = 0
  /\ start = 0
  /\ delay = 0
  /\ timing = [elapsed |-> {0}, late |-> {0}]
  /\ pool = DefaultWorkers
  /\ maxsize \in 1..MaxQueue
  /\ p_pc = "off"
  /\ p_in = << >>
  /\ p_res = << >>

Next ==
  \/ RunStart
  \/ LoopTest
  \/ Join
  \/ Wake
  \/ Finally
  \/ CloseCall
  \/ CloseClear
  \/ Stop
  \/ Consume
  \/ \E i \in Tasks : ToThread(i)
  \/ \E i \in Tasks : RunTest(i)
  \/ \E i \in Tasks : ConnectTest(i)
  \/ \E i \in Tasks : ConnectNew(i)
  \/ \E i \in Tasks : DialCall(i)
  \/ \E i \in Tasks : Dial(i)
  \/ \E i \in Tasks : ExecCall(i)
  \/ \E i \in Tasks : Exec(i)
  \/ \E i \in Tasks : PollOneEnds(i)

Spec == Init /\ [][Next]_vars

\* a step of the worker thread and coroutine of host-list entry i
TaskStep(i) ==
  \/ ToThread(i) \/ RunTest(i) \/ ConnectTest(i) \/ ConnectNew(i)
  \/ DialCall(i) \/ Dial(i) \/ ExecCall(i) \/ Exec(i) \/ PollOneEnds(i)

\* a step of the program or of the consumer (every step but Stop)
Progress ==
  \/ LoopTest \/ Join \/ Wake \/ Finally \/ CloseCall \/ CloseClear
  \/ Consume
  \/ \E i \in Tasks : TaskStep(i)

\* The event loop runs a coroutine that can go on, a remote operation returns
\* or fails, and the consumer takes a queued event: as long as one of these
\* steps is possible, one of them is taken.
Fairness == WF_vars(Progress)

FairSpec == Spec /\ Fairness

\* ------------------------------------------------------ run() is cancelled
\* The task of run() is cancelled while it waits in the gather or in the
\* sleep: CancelledError is raised at the await, reaches every poll_one of the
\* gather (it is not an Exception, so the except clause lets it pass) and
\* run() goes to its finally. A poll_one waiting in queue.put puts nothing. A
\* call of cli.run that a worker thread has taken is not interrupted: the
\* thread goes on and what it returns is dropped. A call no thread has taken
\* yet never begins.
Cancel ==
  /\ sched \in {"gather", "sleep"}
  /\ sched' = "finally"
  /\ task' = [i \in Tasks |->
               IF i \in Working
               THEN [task[i] EXCEPT !.orphan = TRUE]
               ELSE IF task[i].pc \in {"run", "put"}
               THEN [task[i] EXCEPT !.pc = "cancelled", !.res = NoRes]
               ELSE task[i]]
  /\ UNCHANGED <<hosts, emit_only_above, threshold, running, clients, sshobj,
                 conns, fin, tick, queue, purevars, closes, timevars, pool,
                 maxsize>>

\* two hosts, each listed once, and a queue of one slot (every put may have
\* to wait for the consumer) or of two (the puts of one tick never wait for
\* each other)
InitTwoHosts ==
  /\ Init
  /\ hosts = <<"h1", "h2">>
  /\ ~emit_only_above
  /\ maxsize <= 2

NextCancel == Next \/ Cancel

SpecCancel == InitTwoHosts /\ [][NextCancel]_vars

\* the poller of two hosts where every step of the program that can be taken
\* is taken in the end
SpecLive == InitTwoHosts /\ [][Next]_vars /\ Fairness

\* ------------------------------------------------- the pure functions alone
\* the poller is not started
MainOff ==
  /\ hosts = << >>
  /\ emit_only_above = FALSE
  /\ threshold = DefaultThreshold * Scale
  /\ running = TRUE
  /\ clients = << >>
  /\ sshobj = << >>
  /\ conns = << >>
  /\ sched = "off"
  /\ fin = 0
  /\ tick = 0
  /\ task = << >>
  /\ queue = << >>
  /\ closes = << >>
  /\ interval = DefaultInterval
  /\ now = 0
  /\ start = 0
  /\ delay = 0
  /\ timing = [elapsed |-> {0}, late |-> {0}]
  /\ pool = DefaultWorkers
  /\ maxsize = 1

\* tokens: "12.0", "3", ".5", "-1", "us", a superscript two, "."
Tokens ==
  { <<"1", "2", ".", "0">>, <<"3">>, <<".", "5">>, <<"-", "1">>,
    <<"u", "s">>, <<"sup2">>, <<".">> }

Lines == SeqsUpTo(Tokens, MaxToks)

\* an earlier line of the output: "99 98 97 96"
EarlierLine == << <<"9", "9">>, <<"9", "8">>, <<"9", "7">>, <<"9", "6">> >>

\* outputs given to the sampler: a line, alone or after an earlier line, with
\* or without a blank line after it
ParseInputs ==
  { pre \o <<l>> \o post :
      pre \in {<< >>, <<EarlierLine>>}, l \in Lines, post \in {<< >>, << << >> >>} }

InitParse ==
  /\ MainOff
  /\ p_pc = "ready"
  /\ p_in \in ParseInputs
  /\ p_res = << >>

\* poll_one's parsing of one command output
ParseStep ==
  /\ p_pc = "ready"
  /\ p_res' = SampleOf(p_in)
  /\ p_pc' = "done"
  /\ UNCHANGED <<p_in, mainvars>>

NextParse == ParseStep

SpecParse == InitParse /\ [][NextParse]_vars

InitEval ==
  /\ MainOff
  /\ p_pc = "ready"
  /\ p_in \in [usage : 0..MaxUsage, threshold : 0..MaxUsage, only_above : BOOLEAN]
  /\ p_res = << >>

\* poll_one's threshold decision for one usage value
EvalStep ==
  /\ p_pc = "ready"
  /\ LET crossed == Crossed(p_in.usage, p_in.threshold)
     IN  p_res' = [crossed |-> crossed,
                   shouldEmit |-> ShouldEmit(p_in.only_above, crossed)]
  /\ p_pc' = "done"
  /\ UNCHANGED <<p_in, mainvars>>

NextEval == EvalStep

SpecEval == InitEval /\ [][NextEval]_vars

\* readings in eighths of a percent (exact as floats, as are their sums):
\* us from 79.0 to 80.0, sy and wa 0 or 0.125, id 20.0
Eighth == Scale \div 8

EmitReadings ==
  { [us |-> u, sy |-> y, id |-> 20 * Scale, wa |-> w, usage |-> u + y + w] :
      u \in {k * Eighth : k \in 632..640}, y \in {0, Eighth}, w \in {0, Eighth} }

\* thresholds 80.0, 79.88 and 79.875
EmitThresholds ==
  {DefaultThreshold * Scale, 7988 * (Scale \div 100), 79 * Scale + 7 * Eighth}

InitEmit ==
  /\ hosts = << >>
  /\ emit_only_above \in BOOLEAN
  /\ threshold \in EmitThresholds
  /\ running = TRUE
  /\ clients = << >>
  /\ sshobj = << >>
  /\ conns = << >>
  /\ sched = "off"
  /\ fin = 0
  /\ tick = 0
  /\ task = << >>
  /\ queue = << >>
  /\ closes = << >>
  /\ interval = DefaultInterval
  /\ now = 0
  /\ start = 0
  /\ delay = 0
  /\ timing = [elapsed |-> {0}, late |-> {0}]
  /\ pool = DefaultWorkers
  /\ maxsize = 1
  /\ p_pc = "ready"
  /\ p_in \in EmitReadings
  /\ p_res = << >>

\* poll_one from the parsed cpu dict to the events it puts
EmitStep ==
  /\ p_pc = "ready"
  /\ p_res' = EventsFor("h1", [ok |-> TRUE, cpu |-> p_in])
  /\ p_pc' = "done"
  /\ UNCHANGED <<p_in, mainvars>>

NextEmit == EmitStep

SpecEmit == InitEmit /\ [][NextEmit]_vars

\* ------------------------------------- one host, the clock left to run free
\* the configured intervals explored
Intervals == {0, 5, DefaultInterval}

\* the times a tick's gather may take, and how late a sleep may return
TickTimes == {0, 3, 10, 12, 25}
LateBy == {0, 1}

\* the poller of Init with a single host and emit_only_above false, and an
\* environment in which ticks take time and sleeps may return late
InitTick ==
  /\ hosts = <<"h1">>
  /\ emit_only_above = FALSE
  /\ threshold = DefaultThreshold * Scale
  /\ running = TRUE
  /\ clients = << >>
  /\ sshobj = << >>
  /\ conns = << >>
  /\ sched = "idle"
  /\ fin = 0
  /\ tick = 0
  /\ task = <<[FreshTask EXCEPT !.pc = "idle"]>>
  /\ queue = << >>
  /\ closes = << >>
  /\ interval \in Intervals
  /\ now = 0
  /\ start = 0
  /\ delay = 0
  /\ timing = [elapsed |-> TickTimes, late |-> LateBy]
  /\ pool = DefaultWorkers
  /\ maxsize = 1
  /\ p_pc = "off"
  /\ p_in = << >>
  /\ p_res = << >>

SpecTick == InitTick /\ [][Next]_vars

\* --------------------------------- more hosts than the executor has workers
\* the poller of Init with two hosts and fewer workers than hosts: the case of
\* a host list longer than min(32, cpu_count + 4), scaled down
InitPool ==
  /\ hosts = <<"h1", "h2">>
  /\ emit_only_above \in BOOLEAN
  /\ threshold = DefaultThreshold * Scale
  /\ running = TRUE
  /\ clients = << >>
  /\ sshobj = << >>
  /\ conns = << >>
  /\ sched = "idle"
  /\ fin = 0
  /\ tick = 0
  /\ task = [i \in 1..2 |-> [FreshTask EXCEPT !.pc = "idle"]]
  /\ queue = << >>
  /\ closes = << >>
  /\ interval = DefaultInterval
  /\ now = 0
  /\ start = 0
  /\ delay = 0
  /\ timing = [elapsed |-> {0}, late |-> {0}]
  /\ pool \in 1..(Len(hosts) - 1)
  /\ maxsize = 1
  /\ p_pc = "off"
  /\ p_in = << >>
  /\ p_res = << >>

SpecPool == InitPool /\ [][Next]_vars

\* ------------------------------------------- connect's choice of credentials
\* what connect is given and what the environment does with it: a key path is
\* configured or not, the file loads as an RSA key, as an ECDSA key, the server
\* accepts the loaded key, a password is configured, the server accepts it,
\* the SSH agent holds a key the server accepts
AuthInputs ==
  [key_path : BOOLEAN, rsa_loads : BOOLEAN, ecdsa_loads : BOOLEAN,
   key_ok : BOOLEAN, password : BOOLEAN, password_ok : BOOLEAN,
   agent_ok : BOOLEAN]

\* pkey: RSAKey.from_private_key_file, else ECDSAKey.from_private_key_file,
\* else None
LoadKey(in) ==
  IF ~in.key_path THEN "none"
  ELSE IF in.rsa_loads THEN "rsa"
  ELSE IF in.ecdsa_loads THEN "ecdsa"
  ELSE "none"

\* password=self.password if not pkey else None
PasswordArg(in, pkey) == pkey = "none" /\ in.password

\* self._client.connect(..., password=, pkey=, look_for_keys=False,
\* allow_agent=True): paramiko tries the given key, then the agent's keys, then
\* the given password, and raises when none of them is accepted
ParamikoAuth(in, pkey, pw) ==
  IF pkey # "none" /\ in.key_ok THEN [ok |-> TRUE, method |-> "pkey"]
  ELSE IF in.agent_ok THEN [ok |-> TRUE, method |-> "agent"]
  ELSE IF pw /\ in.password_ok THEN [ok |-> TRUE, method |-> "password"]
  ELSE Raise("AuthenticationException", "Authentication failed")

\* connect, from the key loading to the return of paramiko's connect
ConnectAuth(in) ==
  LET pkey == LoadKey(in)
  IN  ParamikoAuth(in, pkey, PasswordArg(in, pkey))

InitAuth ==
  /\ MainOff
  /\ p_pc = "ready"
  /\ p_in \in AuthInputs
  /\ p_res = << >>

AuthStep ==
  /\ p_pc = "ready"
  /\ p_res' = ConnectAuth(p_in)
  /\ p_pc' = "done"
  /\ UNCHANGED <<p_in, mainvars>>

NextAuth == AuthStep

SpecAuth == InitAuth /\ [][NextAuth]_vars

\* ------------------------------------------------- a Session used alone
\* mutant of ConnectCall: no early return
ConnectCallAlways(h, ok) ==
  /\ sshobj' = Append(sshobj, [transport |-> IF ok THEN Len(conns) + 1 ELSE 0])
  /\ clients' = [clients EXCEPT ![h] = Len(sshobj) + 1]
  /\ conns' = IF ok THEN Append(conns, [host |-> h, open |-> TRUE]) ELSE conns

\* _SSHClient.connect() from call to return, in one thread: nothing if
\* self._client is set; else a new paramiko.SSHClient is assigned and its
\* connect succeeds (ok) or raises
ConnectCall(h, ok) ==
  IF clients[h] # 0
  THEN UNCHANGED <<clients, sshobj, conns>>
  ELSE /\ sshobj' = Append(sshobj, [transport |-> IF ok THEN Len(conns) + 1 ELSE 0])
       /\ clients' = [clients EXCEPT ![h] = Len(sshobj) + 1]
       /\ conns' = IF ok THEN Append(conns, [host |-> h, open |-> TRUE]) ELSE conns

\* one _SSHClient(host="h1"), as __init__ leaves it: self._client = None
InitSess ==
  /\ hosts = <<"h1">>
  /\ emit_only_above = FALSE
  /\ threshold = DefaultThreshold * Scale
  /\ running = TRUE
  /\ clients = [h \in {"h1"} |-> 0]
  /\ sshobj = << >>
  /\ conns = << >>
  /\ sched = "off"
  /\ fin = 0
  /\ tick = 0
  /\ task = <<[FreshTask EXCEPT !.pc = "idle"]>>
  /\ queue = << >>
  /\ closes = <<0>>
  /\ interval = DefaultInterval
  /\ now = 0
  /\ start = 0
  /\ delay = 0
  /\ timing = [elapsed |-> {0}, late |-> {0}]
  /\ pool = DefaultWorkers
  /\ maxsize = 1
  /\ p_pc = "session"
  /\ p_in = << >>
  /\ p_res = << >>

\* a call of connect(); p_in is the calls made so far, p_res whether the last raised
SessConnect ==
  /\ p_pc = "session"
  /\ Len(p_in) < MaxCalls
  /\ \E ok \in BOOLEAN :
       /\ ConnectCall("h1", ok)
       /\ p_res' = [raised |-> (clients'["h1"] # clients["h1"] /\ ~ok)]
  /\ p_in' = Append(p_in, "connect")
  /\ UNCHANGED <<hosts, emit_only_above, threshold, running, sched, fin, tick,
                 task, queue, closes, timevars, pool, maxsize, p_pc>>

\* a call of close(); paramiko's close() of a client is taken not to raise
SessClose ==
  /\ p_pc = "session"
  /\ Len(p_in) < MaxCalls
  /\ CloseSession("h1")
  /\ p_res' = [raised |-> FALSE]
  /\ p_in' = Append(p_in, "close")
  /\ UNCHANGED <<hosts, emit_only_above, threshold, running, sshobj, sched,
                 fin, tick, task, queue, timevars, pool, maxsize, p_pc>>

\* a call of run(cmd): connect() if self._client is None, then exec_command on
\* the client, which raises when its connect had failed; else the remote side
\* writes out on its output stream and, if err, text on its error stream.
\* p_res keeps both streams and what run returned or raised.
SessRun ==
  /\ p_pc = "session"
  /\ Len(p_in) < MaxCalls
  /\ \E ok \in BOOLEAN, out \in Outputs, err \in BOOLEAN :
       /\ ConnectCall("h1", ok)
       /\ LET t == sshobj'[clients'["h1"]].transport
              r == RunResult(out, err)
          IN  p_res' = IF t = 0 THEN [raised |-> TRUE]
                       ELSE [raised |-> ~r.ok, stdout |-> out, stderr |-> err,
                             result |-> r]
  /\ p_in' = Append(p_in, "run")
  /\ UNCHANGED <<hosts, emit_only_above, threshold, running, sched, fin, tick,
                 task, queue, closes, timevars, pool, maxsize, p_pc>>

NextSess == SessConnect \/ SessClose \/ SessRun

SpecSess == InitSess /\ [][NextSess]_vars

\* ------------------------------------------------------------------- claims
\* a poll_one of the current tick that is inside cli.run, in its worker thread
InRun(i) == i \in Working

\* the loop is between two ticks, or over: the tasks are those of a completed tick
TickComplete == tick > 0 /\ sched \in {"sleep", "loop"}

\* task i ends its poll in this step
Ends(i) == task[i].pc # "done" /\ task'[i].pc = "done"

\* C1: with emit_only_above false, in a completed tick every entry of the host
\* list has put exactly one event, an error event if its poll failed and a
\* success event if not, so the N entries have put exactly N events.
C1_OneEventPerHost ==
  (~emit_only_above /\ TickComplete) =>
    \A i \in Tasks :
      task[i].emitted = IF task[i].failed THEN <<"error">> ELSE <<"success">>

C1_Witness ==
  /\ ~emit_only_above /\ TickComplete /\ Len(hosts) = 2
  /\ task[1].failed /\ task[1].emitted = <<"error">>
  /\ ~task[2].failed /\ task[2].emitted = <<"success">>

\* C2: a failure in one host's poll stays inside that poll: the step in which
\* it fails ends the poll normally (no exception leaves poll_one), leaves every
\* other poll of the tick and the scheduler as they were, and the loop is left
\* only because the running flag was cleared; the tick is joined only when
\* every other poll has ended too, and while a tick with a failed poll is not
\* joined, or the loop sleeps after it, a step of the program or of the
\* consumer is possible (nothing is blocked), up to the start of the next tick.
C2_FailureIsolated ==
  /\ [][\A i \in Tasks :
          (task[i].pc # task'[i].pc /\ task'[i].failed) =>
            /\ task'[i].pc = "done"
            /\ sched' = sched /\ running' = running
            /\ \A j \in Tasks \ {i} : task'[j] = task[j]]_vars
  /\ [](\A i \in Tasks : task[i].pc # "raised")
  /\ []((InFinally \/ sched = "stopped") => ~running)
  /\ []((sched = "sleep" /\ \E i \in Tasks : task[i].failed) => AllDone)
  /\ []((sched \in {"gather", "sleep"} /\ \E i \in Tasks : task[i].failed)
          => ENABLED Progress)
  /\ []((sched = "loop" /\ running /\ tick < MaxTicks
            /\ \E i \in Tasks : task[i].failed) => ENABLED LoopTest)

\* h1's connect failed in the first tick, h2 was polled in it all the same
\* and the second tick has started
C2_Witness ==
  /\ hosts = <<"h1", "h2">> /\ tick = 2 /\ sched = "gather" /\ running
  /\ task[1].pc = "run" /\ task[2].pc = "run"
  /\ clients["h1"] # 0 /\ sshobj[clients["h1"]].transport = 0
  /\ OpenConns("h2") # {}

\* C3: the step in which a host's poll fails puts exactly one event, an error
\* event of that host with severity "error" and without cpu, threshold or
\* crossed, whatever emit_only_above is, in every tick.
C3_FailureEmitsOneError ==
  [][\A i \in Tasks :
       (Ends(i) /\ task'[i].failed) =>
         /\ task'[i].emitted = <<"error">>
         /\ Len(queue') = Len(queue) + 1
         /\ LET e == queue'[Len(queue')]
            IN  /\ e.host = hosts[i]
                /\ "error" \in DOMAIN e
                /\ e.severity = "error"
                /\ DOMAIN e \cap {"cpu", "threshold", "crossed"} = {}]_vars

\* the host never connected, and its poll has failed in the second tick too
C3_Witness ==
  /\ emit_only_above /\ tick = 2 /\ hosts = <<"h1">>
  /\ conns = << >>
  /\ task[1].pc = "done" /\ task[1].failed /\ task[1].emitted = <<"error">>
  /\ Len(queue) = 1 /\ queue[1].severity = "error"

\* C5: with emit_only_above true every success event on the queue has crossed
\* true, and a poll that succeeds with usage below the threshold puts nothing;
\* with emit_only_above false every successful poll puts one success event,
\* whose crossed flag says whether us + sy + wa reaches the threshold.
C5_EmitPolicy ==
  /\ \A k \in 1..Len(queue) :
       Kind(queue[k]) = "success" =>
         /\ emit_only_above => queue[k].crossed
         /\ queue[k].crossed =
              (queue[k].cpu.us + queue[k].cpu.sy + queue[k].cpu.wa >= threshold)
  /\ \A i \in Tasks :
       (task[i].pc = "done" /\ ~task[i].failed) =>
         task[i].emitted =
           IF emit_only_above /\ task[i].usage < threshold
           THEN << >> ELSE <<"success">>

C5_Witness ==
  /\ emit_only_above /\ Len(hosts) = 2
  /\ task[1].pc = "done" /\ ~task[1].failed
  /\ task[1].usage < threshold /\ task[1].emitted = << >>
  /\ task[2].pc = "done" /\ ~task[2].failed
  /\ task[2].usage >= threshold /\ task[2].emitted = <<"success">>

\* C8: the loop leaves the gather, computes its sleep and starts the next tick
\* only when every poll of the current tick has ended.
C8_FullJoin ==
  /\ [][(sched = "gather" /\ sched' # "gather") => AllDone]_vars
  /\ [][(tick' # tick /\ tick > 0) => AllDone]_vars
  /\ [](sched = "sleep" => AllDone)

\* one host has answered, the other has not: the loop is still in the gather
C8_Witness ==
  /\ tick = 2 /\ sched = "gather" /\ Len(hosts) = 2
  /\ task[1].pc = "done" /\ task[2].pc = "wait"

\* C9 (as claimed): no two polls are inside cli.run on the same Session at the
\* same time, for every accepted host list.
C9_SessionNotShared ==
  \A i, j \in Tasks :
    (i # j /\ InRun(i) /\ InRun(j)) => hosts[i] # hosts[j]

\* C10 (as claimed): a host never has more than one open transport.
C10_OneConnectionPerHost ==
  \A h \in HostNames : Cardinality(OpenConns(h)) <= 1

\* a non-negative decimal number: ASCII digits, at least one, with at most one "."
IsNonNegDecimal(t) ==
  /\ \E i \in 1..Len(t) : t[i] \in AsciiDigits
  /\ \A i \in 1..Len(t) : t[i] \in AsciiDigits \cup {"."}
  /\ Cardinality({i \in 1..Len(t) : t[i] = "."}) <= 1

IsBlank(line) == Len(line) = 0

\* the last non-blank line of the sampler's input, << >> when it has none
LastNonBlank(out) ==
  LET idx == {k \in 1..Len(out) : ~IsBlank(out[k])}
  IN  IF idx = {} THEN << >>
      ELSE out[CHOOSE k \in idx : \A m \in idx : m <= k]

\* the tokens of a line that are non-negative decimal numbers, in order
DecimalToks(line) == SelectSeq(line, IsNonNegDecimal)

\* the Reading made of four tokens
ReadingOf(a, b, c, d) ==
  [us |-> FloatVal(a), sy |-> FloatVal(b), id |-> FloatVal(c), wa |-> FloatVal(d),
   usage |-> FloatVal(a) + FloatVal(b) + FloatVal(d)]

\* C4: crossed is usage >= threshold, true at equality, and shouldEmit is
\* (not emit_only_above) or crossed, for every usage, threshold and policy;
\* (85,80,false), (85,80,true) and (80,80,false) give (true,true) and
\* (50,80,true) gives (false,false).
C4_ThresholdDecision ==
  p_pc = "done" =>
    /\ p_res.crossed = ~(p_in.usage < p_in.threshold)
    /\ (p_in.usage = p_in.threshold => p_res.crossed)
    /\ p_res.shouldEmit = ((~p_in.only_above) \/ p_res.crossed)
    /\ (p_in.usage = 85 /\ p_in.threshold = 80)
         => (p_res.crossed /\ p_res.shouldEmit)
    /\ (p_in.usage = 50 /\ p_in.threshold = 80 /\ p_in.only_above)
         => (~p_res.crossed /\ ~p_res.shouldEmit)
    /\ (p_in.usage = 80 /\ p_in.threshold = 80 /\ ~p_in.only_above)
         => (p_res.crossed /\ p_res.shouldEmit)

C4_Witness ==
  /\ p_pc = "done"
  /\ p_in = [usage |-> 80, threshold |-> 80, only_above |-> FALSE]
  /\ p_res = [crossed |-> TRUE, shouldEmit |-> TRUE]

\* C6 (as claimed): a line holding exactly four numeric tokens is parsed to
\* those four values with usage = us + sy + wa, and a line holding fewer than
\* four numeric tokens makes the parsing fail.
C6_FourNumericTokens ==
  (p_pc = "done" /\ LastNonBlank(p_in) # << >>) =>
    LET d == DecimalToks(LastNonBlank(p_in))
    IN  /\ Len(d) = 4 =>
             (p_res.ok /\ p_res.cpu = ReadingOf(d[1], d[2], d[3], d[4]))
        /\ Len(d) < 4 => ~p_res.ok

\* C7 (as claimed): the Reading is made of the final four tokens of the last
\* non-blank line that are non-negative decimal numbers, every other token
\* being skipped, so its components are non-negative and do not depend on
\* earlier lines or tokens.
C7_LastLineFinalFour ==
  (p_pc = "done" /\ LastNonBlank(p_in) # << >>) =>
    LET d == DecimalToks(LastNonBlank(p_in))
        n == Len(d)
    IN  n >= 4 =>
          /\ p_res.ok
          /\ p_res.cpu = ReadingOf(d[n - 3], d[n - 2], d[n - 1], d[n])
          /\ p_res.cpu.us >= 0 /\ p_res.cpu.sy >= 0
          /\ p_res.cpu.id >= 0 /\ p_res.cpu.wa >= 0

\* entry i is the only entry of the host list for its host
OnlyEntry(i) == \A j \in Tasks : hosts[j] = hosts[i] => j = i

\* the Session of host h holds a connected transport
Connected(h) ==
  /\ clients[h] # 0
  /\ sshobj[clients[h]].transport # 0
  /\ conns[sshobj[clients[h]].transport].open

\* C11 (as claimed): a Session whose connect attempt failed connects afresh in
\* the next tick: a poll goes on to run its command only on a Session that
\* holds a connection, otherwise it makes a connect attempt first.
C11_ReconnectAfterFailure ==
  \A i \in Tasks :
    (OnlyEntry(i) /\ task[i].pc = "exec") => Connected(hosts[i])

\* C12 (as claimed): when the poller has stopped, close() has been called
\* exactly once on every Session built at start-up, and never more than once
\* on any of them before.
C12_ClosedExactlyOnce ==
  /\ \A i \in 1..Len(closes) : closes[i] <= 1
  /\ sched = "stopped" => \A i \in 1..Len(closes) : closes[i] = 1

\* C13: once the running flag is cleared no poll of the tick in progress is
\* cancelled (each goes on to its normal end), the gather is left only when
\* all of them have ended, no further tick is started, the loop is left only
\* at the while test, the finally block then closes every Session before the
\* poller is stopped, and the scheduler never goes back: loop, then finally,
\* then stopped, each of which is able to take its step.
C13_StopAtTickBoundary ==
  /\ [][(~running) => tick' = tick]_vars
  /\ [][(~running) =>
          \A i \in Tasks :
            task'[i].pc # task[i].pc =>
              task'[i].pc \in {"test", "ctest", "new", "dial", "conn", "exec",
                               "wait", "put", "done"}]_vars
  /\ [][(~running /\ sched = "gather" /\ sched' # "gather")
          => (AllDone /\ sched' = "sleep")]_vars
  /\ [][(~InFinally /\ InFinally')
          => (sched = "loop" /\ ~running /\ (tick > 0 => AllDone))]_vars
  /\ [][InFinally => (InFinally' \/ sched' = "stopped")]_vars
  /\ [][(sched = "stopped") => sched' = "stopped"]_vars
  /\ [](sched = "stopped" =>
          /\ ~running
          /\ fin = Len(KeysInOrder(hosts))
          /\ \A h \in DOMAIN clients : clients[h] = 0)
  /\ []((~running /\ sched = "loop") => ENABLED LoopTest)
  /\ [](InFinally => ENABLED (Finally \/ CloseCall \/ CloseClear))

\* the flag was cleared while the first tick was in progress: one poll has
\* ended since, the other is still running its command
C13_Witness ==
  /\ ~running /\ tick = 1 /\ sched = "gather" /\ hosts = <<"h1", "h2">>
  /\ task[1].pc = "done" /\ task[2].pc = "wait"

\* C14: a call of close() never raises and leaves the Session without a
\* connection handle and without an open transport; on a Session that holds
\* no handle (closed just before, or never connected) it changes nothing.
C14_CloseIdempotent ==
  [][(p_in' = Append(p_in, "close")) =>
       /\ ~p_res'.raised
       /\ clients'["h1"] = 0
       /\ (OpenConns("h1") = {})'
       /\ (clients["h1"] = 0 =>
             (clients' = clients /\ sshobj' = sshobj /\ conns' = conns))]_vars

\* connect, close, close: the second close found the Session closed
C14_Witness ==
  /\ p_in = <<"connect", "close", "close">>
  /\ Len(conns) = 1 /\ ~conns[1].open
  /\ clients["h1"] = 0 /\ ~p_res.raised

\* C15: a call of connect() on a connected Session returns without raising,
\* opens no transport, makes no new client and leaves the Session as it was.
C15_ConnectIdempotent ==
  [][(p_in' = Append(p_in, "connect") /\ Connected("h1")) =>
       /\ ~p_res'.raised
       /\ clients' = clients /\ sshobj' = sshobj /\ conns' = conns]_vars

\* connect, connect: one transport, open
C15_Witness ==
  /\ p_in = <<"connect", "connect">>
  /\ Len(conns) = 1 /\ conns[1].open /\ Connected("h1")

\* C16: the sleep after a tick is max(0, interval - elapsed), elapsed being the
\* time since the tick's start (3 of 10 gives 7, 12 of 10 gives 0), and it
\* returns no earlier than asked; so a tick never starts less than interval
\* after the tick before it, and after a tick that took the interval or more
\* the sleep is 0: the one next tick starts at once, however many intervals
\* the long tick spanned.
C16_SleepRestOfInterval ==
  /\ [](sched = "sleep" =>
          /\ (now - start < interval => delay = interval - (now - start))
          /\ (now - start >= interval => delay = 0)
          /\ ((interval = 10 /\ now - start = 3) => delay = 7)
          /\ ((interval = 10 /\ now - start = 12) => delay = 0))
  /\ [][(sched = "sleep" /\ sched' = "loop") =>
          /\ now' - now >= delay
          /\ now' - start >= interval]_vars
  /\ [][(tick' = tick + 1 /\ tick > 0) =>
          /\ start' = now
          /\ start' - start >= interval]_vars
  /\ [][(tick' # tick) => tick' = tick + 1]_vars

\* the first tick took 12 with interval 10, nothing was slept, and the second
\* tick started at 12
C16_Witness ==
  /\ interval = 10 /\ tick = 2 /\ sched = "gather"
  /\ start = 12 /\ delay = 0 /\ now = 12

\* C17: with an empty host list (a missing one is read as empty) run raises
\* before anything else: the poller is either not started yet or has failed,
\* and no Session was built, no client or transport made, no tick run and no
\* event put.
C17_EmptyHostListFails ==
  Len(hosts) = 0 =>
    /\ sched \in {"idle", "raised"}
    /\ clients = << >> /\ closes = << >>
    /\ sshobj = << >> /\ conns = << >>
    /\ tick = 0 /\ queue = << >>

C17_Witness == Len(hosts) = 0 /\ sched = "raised"

SuccessFields == {"timestamp", "host", "cpu", "threshold", "crossed", "source"}
CpuFields     == {"percent", "us", "sy", "id", "wa"}
ErrorFields   == {"timestamp", "host", "error", "source", "severity"}

\* C18: every event on the queue is either a success event, with exactly the
\* fields timestamp, host, cpu (percent, us, sy, id, wa), threshold (the
\* configured one), crossed and source "aix_cpu_watch", or an error event,
\* with exactly timestamp, host, error, source "aix_cpu_watch" and severity
\* "error".
C18_EventShapes ==
  \A k \in 1..Len(queue) :
    LET e == queue[k]
    IN  \/ /\ DOMAIN e = SuccessFields
           /\ DOMAIN e.cpu = CpuFields
           /\ e.threshold = threshold
           /\ e.crossed \in BOOLEAN
           /\ e.source = "aix_cpu_watch"
        \/ /\ DOMAIN e = ErrorFields
           /\ e.source = "aix_cpu_watch"
           /\ e.severity = "error"

\* h1's poll has put its error event, which was taken, and h2's success
\* event is on the queue
C18_Witness ==
  /\ hosts = <<"h1", "h2">>
  /\ task[1].emitted = <<"error">> /\ task[2].emitted = <<"success">>
  /\ Len(queue) = 1 /\ queue[1].host = "h2" /\ "cpu" \in DOMAIN queue[1]

\* C19 (as claimed): in every success event crossed says whether the event's
\* own cpu.percent reaches the event's threshold.
C19_CrossedMatchesPercent ==
  p_pc = "done" =>
    \A k \in 1..Len(p_res) :
      p_res[k].crossed = (p_res[k].cpu.percent >= p_res[k].threshold)

\* the event of the example: percent 20.0, us 12, sy 3, id 80, wa 5, not crossed
C20_Event ==
  [timestamp |-> tick,
   host      |-> "h1",
   cpu       |-> [percent |-> 20 * Scale, us |-> 12 * Scale, sy |-> 3 * Scale,
                  id |-> 80 * Scale, wa |-> 5 * Scale],
   threshold |-> 80 * Scale,
   crossed   |-> FALSE,
   source    |-> "aix_cpu_watch"]

\* C20: with the single host h1, emit_only_above false and threshold 80.0, in
\* every tick the poll whose command returns "12.0 3.0 80.0 5.0" as its last
\* line puts exactly one event, the success event with percent 20.0, us 12,
\* sy 3, id 80, wa 5 and crossed false.
C20_ExampleReading ==
  [][\A i \in Tasks :
       (PollOneEnds(i) /\ task[i].res = [ok |-> TRUE, out |-> OutLow]) =>
         /\ queue' = Append(queue, C20_Event)
         /\ task'[i].emitted = <<"success">>
         /\ ~task'[i].failed]_vars

\* the second tick's event of the example is on the queue
C20_Witness ==
  /\ hosts = <<"h1">> /\ ~emit_only_above /\ threshold = 80 * Scale
  /\ tick = 2 /\ task[1].pc = "done" /\ task[1].emitted = <<"success">>
  /\ queue = <<C20_Event>>

\* C21 (as claimed): while a tick is in its gather, a poll whose remote
\* operation has not started can start it, whatever the other polls of the
\* tick are doing and however many hosts are configured.
C21_NoHostDelaysAnother ==
  sched = "gather" =>
    \A i \in Tasks : task[i].pc = "run" => ENABLED ToThread(i)

\* C22: the events of one host that are on the queue together stand in tick
\* order, the older tick nearer the head, and in strictly increasing ticks
\* when the host is listed once; between different hosts no order holds. An
\* event is put at the tail, by a poll of the current tick that ends in this
\* tick's gather, and carries that tick; the consumer takes from the head;
\* ticks only go up, and the next tick starts only when every poll of the
\* current one has ended, that is after all its puts. So a host's event of
\* tick N is placed on the queue before its event of tick N+1.
C22_HostEventsInTickOrder ==
  /\ [](\A k \in 1..Len(queue) : \A l \in 1..Len(queue) :
          (k < l /\ queue[k].host = queue[l].host) =>
            /\ queue[k].timestamp <= queue[l].timestamp
            /\ (\A i \in Tasks : \A j \in Tasks :
                  (hosts[i] = queue[k].host /\ hosts[j] = queue[k].host)
                    => i = j)
                 => queue[k].timestamp < queue[l].timestamp)
  /\ [][(Len(queue') > Len(queue)) =>
          LET e == queue'[Len(queue')]
          IN  /\ queue' = Append(queue, e)
              /\ sched = "gather" /\ tick' = tick
              /\ e.timestamp = tick
              /\ \E i \in Tasks : Ends(i) /\ e.host = hosts[i]]_vars
  /\ [][(Len(queue') < Len(queue)) => queue' = Tail(queue)]_vars
  /\ [][tick' >= tick]_vars
  /\ [][(tick' # tick /\ tick > 0) => AllDone]_vars

\* nothing was taken in two ticks of two hosts: h2 was first to put in the
\* first tick and h1 in the second, and each host's two events are in tick
\* order
C22_Witness ==
  /\ hosts = <<"h1", "h2">> /\ tick = 2 /\ Len(queue) = 4
  /\ queue[1].host = "h2" /\ queue[1].timestamp = 1
  /\ queue[2].host = "h1" /\ queue[2].timestamp = 1
  /\ queue[3].host = "h1" /\ queue[3].timestamp = 2
  /\ queue[4].host = "h2" /\ queue[4].timestamp = 2

\* C23 (as claimed): with a key path configured, when the key cannot be loaded
\* or the loaded key is not accepted, and no agent key is accepted either,
\* connect authenticates with the configured password if the server accepts
\* it; it fails only if no password is configured or the password is refused.
C23_PasswordFallback ==
  (p_pc = "done" /\ p_in.key_path /\ ~p_in.agent_ok
     /\ (LoadKey(p_in) = "none" \/ ~p_in.key_ok)) =>
    /\ (p_in.password /\ p_in.password_ok)
         => (p_res.ok /\ p_res.method = "password")
    /\ ~p_res.ok => (~p_in.password \/ ~p_in.password_ok)

\* C24: run raises its command error exactly when the remote side wrote to its
\* error stream and its standard output is empty; otherwise it returns the
\* standard output as it is.
C24_RunRaisesOnErrWithoutOut ==
  (p_pc = "session" /\ Len(p_in) > 0 /\ p_in[Len(p_in)] = "run"
     /\ "stdout" \in DOMAIN p_res) =>
    /\ p_res.raised <=> (p_res.stderr /\ p_res.stdout = OutEmpty)
    /\ p_res.raised => (~p_res.result.ok /\ p_res.result.exc = "RuntimeError")
    /\ ~p_res.raised => (p_res.result.ok /\ p_res.result.out = p_res.stdout)

C24_Witness ==
  /\ p_pc = "session" /\ Len(p_in) = 2
  /\ p_in[1] = "run" /\ p_in[2] = "run"
  /\ "stdout" \in DOMAIN p_res
  /\ p_res.stderr /\ p_res.stdout = OutBlank /\ ~p_res.raised
  /\ Len(conns) = 1

\* C25: a poll that fails in its command or in the parsing of the output, on a
\* connected Session, leaves the client, the transport and the connections as
\* they were; a poll that finds its Session connected goes straight to the
\* command, with no connect; and between the polls nothing but close() takes
\* the connection from the Session of a host listed once.
C25_FailureKeepsSession ==
  /\ [][\A i \in Tasks :
          (task[i].pc \in {"exec", "wait", "put"} /\ task'[i] # task[i]) =>
            /\ clients' = clients /\ sshobj' = sshobj /\ conns' = conns
            /\ (task'[i].failed => Kind(queue'[Len(queue')]) = "error")]_vars
  /\ [][\A i \in Tasks :
          (task[i].pc \in {"test", "exec"} /\ task'[i].pc # task[i].pc
             /\ Connected(hosts[i])) =>
            /\ task'[i].pc = IF task[i].pc = "test" THEN "exec" ELSE "wait"
            /\ task'[i].pc = "wait" =>
                 task'[i].chan = sshobj[clients[hosts[i]]].transport
            /\ clients' = clients /\ sshobj' = sshobj /\ conns' = conns]_vars
  /\ [][\A i \in Tasks :
          (sched # "idle" /\ OnlyEntry(i) /\ Connected(hosts[i])
             /\ sched \notin {"close", "clear"}) =>
            /\ clients'[hosts[i]] = clients[hosts[i]]
            /\ sshobj'[clients[hosts[i]]] = sshobj[clients[hosts[i]]]
            /\ OpenConns(hosts[i])' = OpenConns(hosts[i])
            /\ Connected(hosts[i])']_vars

\* the first tick's command failed on the connection it had opened; the
\* second tick's command runs on that same connection
C25_Witness ==
  /\ hosts = <<"h1">> /\ tick = 2 /\ task[1].pc = "wait" /\ task[1].chan = 1
  /\ Len(queue) = 1 /\ Kind(queue[1]) = "error" /\ queue[1].timestamp = 1
  /\ Len(sshobj) = 1 /\ Len(conns) = 1 /\ Connected("h1")

\* C26: when run() starts, one Session is made for each entry of the host
\* list, under the entry's host name and holding no client, and no connection
\* exists; afterwards no Session is made or replaced; and a connection to a
\* host is opened only by a poll of that host, inside its cli.run, during the
\* gather of a tick.
C26_SessionsLazy ==
  /\ [][(sched = "idle" /\ sched' = "loop") =>
          /\ Len(closes') = Len(hosts)
          /\ DOMAIN clients' = {hosts[i] : i \in 1..Len(hosts)}
          /\ \A h \in DOMAIN clients' : clients'[h] = 0
          /\ sshobj' = << >> /\ conns' = << >>]_vars
  /\ [][sched # "idle" =>
          (DOMAIN clients' = DOMAIN clients /\ Len(closes') = Len(closes))]_vars
  /\ [][conns' # conns =>
          \/ Len(conns') = Len(conns)
          \/ /\ conns' = Append(conns, conns'[Len(conns')])
             /\ sched = "gather"
             /\ \E i \in Tasks :
                  /\ hosts[i] = conns'[Len(conns')].host
                  /\ conns'[Len(conns')].open
                  /\ task[i].pc = "conn" /\ task'[i].pc = "exec"]_vars

\* the first tick: h1 is connected by its poll, h2's poll has not begun and
\* its Session holds no client
C26_Witness ==
  /\ hosts = <<"h1", "h2">> /\ tick = 1 /\ sched = "gather"
  /\ task[1].pc = "exec" /\ Connected("h1")
  /\ task[2].pc = "run" /\ clients["h2"] = 0
  /\ Len(conns) = 1 /\ Len(sshobj) = 1

\* C27 (as claimed): once the poller has stopped no transport is open, whether
\* a Session still holds it or not, also after run() was cancelled during a
\* tick.
C27_NoConnectionAfterStop ==
  sched = "stopped" => \A c \in 1..Len(conns) : ~conns[c].open

\* C28: a poll whose command returns an empty output, or lines of white space
\* only, with nothing on the error stream, ends inside poll_one: it puts one
\* event, the error event of its host and tick, and no success event,
\* whatever the emit policy.
C28_BlankOutputIsError ==
  [][\A i \in Tasks : \A o \in {OutEmpty, OutBlank} :
       (PollOneEnds(i) /\ task[i].res = RunResult(o, FALSE)) =>
         /\ Len(queue') = Len(queue) + 1
         /\ SubSeq(queue', 1, Len(queue)) = queue
         /\ Kind(queue'[Len(queue')]) = "error"
         /\ queue'[Len(queue')].host = hosts[i]
         /\ queue'[Len(queue')].timestamp = tick
         /\ task'[i].pc = "done"
         /\ task'[i].failed
         /\ task'[i].emitted = <<"error">>]_vars

\* the blank output of the second tick, on the connection of the first
C28_Witness ==
  /\ hosts = <<"h1">> /\ emit_only_above /\ tick = 2
  /\ task[1].pc = "done" /\ task[1].failed /\ task[1].emitted = <<"error">>
  /\ Len(queue) = 1 /\ queue[1] = ErrEvent("h1", "list index out of range")
  /\ Connected("h1")

\* C29: the success event a poll puts is made of the output its own command
\* returned in this tick and of nothing else: its us, sy, id and wa are the
\* numbers parsed from the last non-blank line of that output, its percent
\* their rounded usage, its crossed flag the comparison of that usage with
\* the threshold, its host and tick the poll's own; and every tick's polls
\* start with no usage.
C29_ReadingFromOwnOutput ==
  /\ [][\A i \in Tasks : \A o \in Outputs :
          (PollOneEnds(i) /\ task[i].res = [ok |-> TRUE, out |-> o]
             /\ task'[i].emitted = <<"success">>) =>
            LET r == ComputeCpuUsageFromVmstat(LastNonBlank(o))
                e == queue'[Len(queue')]
            IN  /\ r.ok
                /\ Len(queue') = Len(queue) + 1
                /\ e.host = hosts[i] /\ e.timestamp = tick
                /\ e.cpu = [percent |-> Round2(r.cpu.usage), us |-> r.cpu.us,
                            sy |-> r.cpu.sy, id |-> r.cpu.id, wa |-> r.cpu.wa]
                /\ e.crossed = (r.cpu.usage >= threshold)
                /\ task'[i].usage = r.cpu.usage]_vars
  /\ [][tick' # tick =>
          \A i \in Tasks : task'[i].usage = NoUsage /\ task'[i].emitted = << >>]_vars

\* second tick, two hosts with different outputs: h1 answered 20.0, h2 answers
\* 80.0 and its event carries 80.0
C29_Witness ==
  /\ hosts = <<"h1", "h2">> /\ ~emit_only_above /\ tick = 2
  /\ task[1].pc = "done" /\ task[1].usage = 20 * Scale
  /\ task[2].pc = "done" /\ task[2].usage = 80 * Scale
  /\ Len(queue) = 1 /\ queue[1].host = "h2" /\ queue[1].timestamp = 2
  /\ Kind(queue[1]) = "success" /\ queue[1].cpu.percent = 80 * Scale
  /\ queue[1].cpu.us = 60 * Scale /\ queue[1].crossed

\* C30: with remote operations that return or fail and a consumer that takes
\* what is queued, every gather ends with all its polls done, also the polls
\* of the other host when one host has failed, and unless the running flag is
\* cleared the next tick starts (up to the last tick explored).
C30_Progress ==
  /\ \A k \in 1..MaxTicks :
       (tick = k /\ sched = "gather")
         ~> (tick = k /\ sched = "sleep" /\ AllDone)
  /\ \A k \in 1..MaxTicks :
       (tick = k /\ sched = "gather" /\ task[1].pc = "done" /\ task[1].failed)
         ~> (tick = k /\ task[2].pc = "done")
  /\ \A k \in 0..(MaxTicks - 1) :
       (tick = k /\ sched \in {"loop", "gather", "sleep"})
         ~> (tick = k + 1 \/ ~running)

\* h1 never connected and fails in every tick; the second tick has begun and
\* h2 is being polled
C30_Witness ==
  /\ hosts = <<"h1", "h2">> /\ running /\ tick = 2 /\ sched = "gather"
  /\ clients["h1"] # 0 /\ sshobj[clients["h1"]].transport = 0
  /\ task[1].pc = "done" /\ task[1].failed
  /\ task[2].pc = "wait" /\ Connected("h2")

====
